---- MODULE Spec2Model ----
(***************************************************************************)
(* Rule-based quiz grading of the Course Companion backend.                *)
(*                                                                         *)
(*   phase-1/services/quiz_grading_service.py  QuizGradingService  (P1)    *)
(*   phase-3/backend/services/quiz_service.py  QuizService         (P3)    *)
(*   phase-1/services/quiz_service.py          QuizService         (P1S)   *)
(*                                                                         *)
(* A text is a sequence of one-character strings.  A score is kept as the  *)
(* exact fraction earned/possible together with its value rounded to two   *)
(* decimals, in hundredths of a percent point (10000 = 100.00).            *)
(***************************************************************************)
EXTENDS Integers, Sequences, FiniteSets, TLC

VARIABLES quizzes, questions, answers, submissions, progress,
          call, result, prev, gcall, gres, tasks

vars == <<quizzes, questions, answers, submissions, progress,
          call, result, prev, gcall, gres, tasks>>

dbvars == <<quizzes, questions, answers, submissions, progress>>

(***************************************************************************)
(* Text primitives: str.lower, str.strip, str.split, the `in` operator.    *)
(***************************************************************************)
Whitespace == {" ", "\t", "\n"}

LowerOf ==
  [A |-> "a", B |-> "b", C |-> "c", D |-> "d", E |-> "e", F |-> "f",
   G |-> "g", H |-> "h", I |-> "i", J |-> "j", K |-> "k", L |-> "l",
   M |-> "m", N |-> "n", O |-> "o", P |-> "p", Q |-> "q", R |-> "r",
   S |-> "s", T |-> "t", U |-> "u", V |-> "v", W |-> "w", X |-> "x",
   Y |-> "y", Z |-> "z"]

Lower(t) ==
  [i \in 1..Len(t) |-> IF t[i] \in DOMAIN LowerOf THEN LowerOf[t[i]] ELSE t[i]]

Strip(t) ==
  LET keep == {i \in 1..Len(t) : t[i] \notin Whitespace}
  IN  IF keep = {} THEN <<>>
      ELSE LET lo == CHOOSE i \in keep : \A j \in keep : i <= j
               hi == CHOOSE i \in keep : \A j \in keep : i >= j
           IN  SubSeq(t, lo, hi)

\* x.lower().strip()
Norm(t) == Strip(Lower(t))

\* needle in hay
Contains(needle, hay) ==
  \E i \in 0..(Len(hay) - Len(needle)) :
     SubSeq(hay, i + 1, i + Len(needle)) = needle

RECURSIVE SplitFrom(_, _)
SplitFrom(t, i) ==
  LET starts == {j \in i..Len(t) : t[j] \notin Whitespace}
  IN  IF starts = {} THEN <<>>
      ELSE LET b == CHOOSE j \in starts : \A k \in starts : j <= k
               stops == {j \in b..Len(t) : t[j] \in Whitespace}
               e == IF stops = {} THEN Len(t)
                    ELSE (CHOOSE j \in stops : \A k \in stops : j <= k) - 1
           IN  <<SubSeq(t, b, e)>> \o SplitFrom(t, e + 1)

\* t.split()
Split(t) == SplitFrom(t, 1)

Range(s) == {s[i] : i \in 1..Len(s)}

\* set(t.split())
WordSet(t) == Range(Split(t))

Min(S) == CHOOSE x \in S : \A y \in S : x <= y

(***************************************************************************)
(* Arithmetic of the graders.                                              *)
(***************************************************************************)
\* points for which the double product p * 0.7 falls just below 7p/10
Float07Short == {90, 170, 180, 330, 340, 350, 360}

\* int(p * 0.8)
IntTimes08(p) == (8 * p) \div 10

\* int(p * 0.7)
IntTimes07(p) == IF p \in Float07Short THEN ((7 * p) \div 10) - 1
                 ELSE (7 * p) \div 10

\* int(p * min(found / total, 1.0)), total > 0
IntTimesRatio(p, found, total) ==
  IF found >= total THEN p
  ELSE IF 10 * found = 7 * total THEN IntTimes07(p)
  ELSE (p * found) \div total

\* found / total > 0.8, the band bound taken exclusive
RatioAbove08(found, total) == 5 * found > 4 * total

\* found / total >= 0.8 and found / total >= 0.5, total > 0
RatioAtLeast08(found, total) == 5 * found >= 4 * total
RatioAtLeast05(found, total) == 2 * found >= total

\* round(n / d * 100, 2) in hundredths, ties to even
Round2Pct(n, d) ==
  LET q == (n * 10000) \div d
      r == (n * 10000) % d
  IN  IF 2 * r > d THEN q + 1
      ELSE IF 2 * r < d THEN q
      ELSE IF q % 2 = 0 THEN q ELSE q + 1

(***************************************************************************)
(* Results of a grader: the returned tuple, or the exception raised.       *)
(***************************************************************************)
NoArg == <<>>

Graded(ok, pts, msg, arg) ==
  [raised |-> "none", is_correct |-> ok, points_awarded |-> pts,
   feedback |-> [msg |-> msg, arg |-> arg]]

Raised(exc) ==
  [raised |-> exc, is_correct |-> FALSE, points_awarded |-> 0,
   feedback |-> [msg |-> "", arg |-> NoArg]]

\* the query without its is_correct filter
AllEntries(entries) == entries

CorrectOnly(entries) == SelectSeq(entries, LAMBDA a : a.is_correct)

EssayMinLen == 50
KeyTermMinLen == 3

\* [term.strip() for term in text.split() if len(term) > 3]
KeyTerms(text) == SelectSeq(Split(text), LAMBDA w : Len(w) > KeyTermMinLen)

\* number of key terms of one entry found in the answer
TermsFound(text, user_answer) ==
  Len(SelectSeq(KeyTerms(text), LAMBDA w : Contains(Lower(w), Lower(user_answer))))

RECURSIVE TotalKeyTerms(_, _)
TotalKeyTerms(entries, i) ==
  IF i > Len(entries) THEN 0
  ELSE Len(KeyTerms(entries[i].answer_text)) + TotalKeyTerms(entries, i + 1)

RECURSIVE KeyTermsFound(_, _, _)
KeyTermsFound(entries, user_answer, i) ==
  IF i > Len(entries) THEN 0
  ELSE TermsFound(entries[i].answer_text, user_answer)
         + KeyTermsFound(entries, user_answer, i + 1)

TrueWordsKey == {<<"t","r","u","e">>, <<"y","e","s">>,
                 <<"c","o","r","r","e","c","t">>}
TrueWordsUser == TrueWordsKey \cup {<<"t">>, <<"y">>}
FalseWordsKey == {<<"f","a","l","s","e">>, <<"n","o">>,
                  <<"i","n","c","o","r","r","e","c","t">>}
FalseWordsUser == FalseWordsKey \cup {<<"f">>, <<"n">>}

(***************************************************************************)
(* P1: QuizGradingService graders.  They receive the entries the query     *)
(* filtered on is_correct, in the order the database returned them.        *)
(***************************************************************************)
\* exact and substring tests made entry by entry in one loop
P1_grade_mcq_one_loop(user_answer, correct_answers) ==
  LET u == Norm(user_answer)
      n == Len(correct_answers)
      hit == {i \in 1..n : Contains(Norm(correct_answers[i].answer_text), u)}
  IN  IF hit # {}
        THEN Graded(TRUE, correct_answers[Min(hit)].points_awarded,
                    IF u = Norm(correct_answers[Min(hit)].answer_text)
                      THEN "Correct! Well done."
                    ELSE "Partially correct. Consider reviewing the material for a complete answer.",
                    NoArg)
      ELSE IF n > 0
        THEN Graded(FALSE, 0, "Incorrect. The correct answer was: ",
                    correct_answers[1].answer_text)
      ELSE Graded(FALSE, 0, "Incorrect answer.", NoArg)

P1_grade_mcq(user_answer, correct_answers) ==
  LET u == Norm(user_answer)
      n == Len(correct_answers)
      exact == {i \in 1..n : u = Norm(correct_answers[i].answer_text)}
      part == {i \in 1..n : Contains(Norm(correct_answers[i].answer_text), u)}
  IN  IF exact # {}
        THEN Graded(TRUE, correct_answers[Min(exact)].points_awarded,
                    "Correct! Well done.", NoArg)
      ELSE IF part # {}
        THEN Graded(TRUE, correct_answers[Min(part)].points_awarded,
                    "Partially correct. Consider reviewing the material for a complete answer.",
                    NoArg)
      ELSE IF n > 0
        THEN Graded(FALSE, 0, "Incorrect. The correct answer was: ",
                    correct_answers[1].answer_text)
      ELSE Graded(FALSE, 0, "Incorrect answer.", NoArg)

P1_grade_true_false(user_answer, correct_answers) ==
  LET u == Norm(user_answer)
      n == Len(correct_answers)
      hit == {i \in 1..n :
                LET c == Norm(correct_answers[i].answer_text)
                IN  \/ c \in TrueWordsKey /\ u \in TrueWordsUser
                    \/ c \in FalseWordsKey /\ u \in FalseWordsUser}
  IN  IF hit # {}
        THEN Graded(TRUE, correct_answers[Min(hit)].points_awarded,
                    "Correct! Well done.", NoArg)
      ELSE IF n > 0
        THEN Graded(FALSE, 0, "Incorrect. The correct answer was: ",
                    correct_answers[1].answer_text)
      ELSE Graded(FALSE, 0, "Incorrect answer.", NoArg)

\* the containment test made in one direction only
RECURSIVE P1_fill_blank_loop_one_way(_, _, _)
P1_fill_blank_loop_one_way(u, correct_answers, i) ==
  IF i > Len(correct_answers)
    THEN IF Len(correct_answers) > 0
           THEN Graded(FALSE, 0, "Incorrect. Expected: ",
                       correct_answers[1].answer_text)
           ELSE Graded(FALSE, 0, "Incorrect answer.", NoArg)
  ELSE LET c == Norm(correct_answers[i].answer_text)
           p == correct_answers[i].points_awarded
           cw == WordSet(c)
           uw == WordSet(u)
       IN  IF u = c
             THEN Graded(TRUE, p, "Correct! Well done.", NoArg)
           ELSE IF Contains(u, c)
             THEN Graded(TRUE, IntTimes08(p),
                         "Close! The answer was slightly different than expected.",
                         NoArg)
           ELSE IF Cardinality(cw) = 0
             THEN Raised("ZeroDivisionError")
           ELSE IF RatioAtLeast08(Cardinality(cw \cap uw), Cardinality(cw))
             THEN Graded(TRUE, IntTimes07(p),
                         "Partially correct. Consider reviewing the exact terminology.",
                         NoArg)
           ELSE P1_fill_blank_loop_one_way(u, correct_answers, i + 1)

\* the loop body of _grade_fill_blank from entry i on
RECURSIVE P1_fill_blank_loop(_, _, _)
P1_fill_blank_loop(u, correct_answers, i) ==
  IF i > Len(correct_answers)
    THEN IF Len(correct_answers) > 0
           THEN Graded(FALSE, 0, "Incorrect. Expected: ",
                       correct_answers[1].answer_text)
           ELSE Graded(FALSE, 0, "Incorrect answer.", NoArg)
  ELSE LET c == Norm(correct_answers[i].answer_text)
           p == correct_answers[i].points_awarded
           cw == WordSet(c)
           uw == WordSet(u)
       IN  IF u = c
             THEN Graded(TRUE, p, "Correct! Well done.", NoArg)
           ELSE IF Contains(c, u) \/ Contains(u, c)
             THEN Graded(TRUE, IntTimes08(p),
                         "Close! The answer was slightly different than expected.",
                         NoArg)
           ELSE IF Cardinality(cw) = 0
             THEN Raised("ZeroDivisionError")
           ELSE IF RatioAtLeast08(Cardinality(cw \cap uw), Cardinality(cw))
             THEN Graded(TRUE, IntTimes07(p),
                         "Partially correct. Consider reviewing the exact terminology.",
                         NoArg)
           ELSE P1_fill_blank_loop(u, correct_answers, i + 1)

P1_grade_fill_blank(user_answer, correct_answers) ==
  IF Strip(user_answer) = <<>>
    THEN Graded(FALSE, 0, "No answer provided.", NoArg)
  ELSE P1_fill_blank_loop(Norm(user_answer), correct_answers, 1)

P1_grade_essay(user_answer, correct_answers) ==
  IF Strip(user_answer) = <<>>
    THEN Graded(FALSE, 0, "No answer provided.", NoArg)
  ELSE IF Len(user_answer) < EssayMinLen
    THEN Graded(TRUE, 1,
                "Response is too short. Please provide more detail and explanation.",
                NoArg)
  ELSE LET total == TotalKeyTerms(correct_answers, 1)
           found == KeyTermsFound(correct_answers, user_answer, 1)
       IN  IF total > 0
             THEN Graded(TRUE,
                         IntTimesRatio(correct_answers[1].points_awarded, found, total),
                         IF RatioAtLeast08(found, total)
                           THEN "Strong response with good coverage of key concepts."
                         ELSE IF RatioAtLeast05(found, total)
                           THEN "Good response but could include more key concepts."
                         ELSE "Response needs more key concepts and details.",
                         NoArg)
           ELSE Graded(TRUE, 0, "Essay response received.", NoArg)

\* the loop body of _grade_text_comparison from entry i on
RECURSIVE P1_text_comparison_loop(_, _, _)
P1_text_comparison_loop(u, correct_answers, i) ==
  IF i > Len(correct_answers)
    THEN Graded(FALSE, 0, "Incorrect. Expected: ", correct_answers[1].answer_text)
  ELSE LET c == Norm(correct_answers[i].answer_text)
           p == correct_answers[i].points_awarded
       IN  IF u = c
             THEN Graded(TRUE, p, "Correct! Well done.", NoArg)
           ELSE IF Contains(c, u) \/ Contains(u, c)
             THEN Graded(TRUE, IntTimes08(p), "Partially correct.", NoArg)
           ELSE P1_text_comparison_loop(u, correct_answers, i + 1)

P1_grade_text_comparison(user_answer, correct_answers) ==
  IF Strip(user_answer) = <<>> \/ Len(correct_answers) = 0
    THEN Graded(FALSE, 0, "No answer provided or no correct answers defined.", NoArg)
  ELSE P1_text_comparison_loop(Norm(user_answer), correct_answers, 1)

(***************************************************************************)
(* P3: QuizService graders.  They receive every entry of the question and  *)
(* test is_correct themselves.                                             *)
(***************************************************************************)
\* next((a for a in possible_answers if a.is_correct), possible_answers[0])
FirstCorrectOrFirst(possible_answers) ==
  LET c == CorrectOnly(possible_answers)
  IN  IF Len(c) > 0 THEN c[1] ELSE possible_answers[1]

P3_grade_mcq(user_answer, possible_answers) ==
  LET u == Norm(user_answer)
      n == Len(possible_answers)
      exact == {i \in 1..n : /\ u = Norm(possible_answers[i].answer_text)
                             /\ possible_answers[i].is_correct}
      part == {i \in 1..n : /\ possible_answers[i].is_correct
                            /\ Contains(Norm(possible_answers[i].answer_text), u)}
      correct_answers == CorrectOnly(possible_answers)
  IN  IF exact # {}
        THEN Graded(TRUE, possible_answers[Min(exact)].points_awarded,
                    "Correct! Well done.", NoArg)
      ELSE IF part # {}
        THEN Graded(TRUE, possible_answers[Min(part)].points_awarded,
                    "Partially correct. Consider reviewing the material for a complete answer.",
                    NoArg)
      ELSE IF Len(correct_answers) > 0
        THEN Graded(FALSE, 0, "Incorrect. The correct answer was: ",
                    correct_answers[1].answer_text)
      ELSE Graded(FALSE, 0, "Incorrect answer.", NoArg)

P3_grade_true_false(user_answer, possible_answers) ==
  LET u == Norm(user_answer)
      n == Len(possible_answers)
      hit == {i \in 1..n :
                LET c == Norm(possible_answers[i].answer_text)
                IN  /\ possible_answers[i].is_correct
                    /\ \/ c \in TrueWordsKey /\ u \in TrueWordsUser
                       \/ c \in FalseWordsKey /\ u \in FalseWordsUser}
  IN  IF hit # {}
        THEN Graded(TRUE, possible_answers[Min(hit)].points_awarded,
                    "Correct! Well done.", NoArg)
      ELSE IF n > 0
        THEN Graded(FALSE, 0, "Incorrect. The correct answer was: ",
                    FirstCorrectOrFirst(possible_answers).answer_text)
      ELSE Graded(FALSE, 0, "Incorrect answer.", NoArg)

\* the loop body of _grade_fill_blank from entry i on
RECURSIVE P3_fill_blank_loop(_, _, _)
P3_fill_blank_loop(u, possible_answers, i) ==
  IF i > Len(possible_answers)
    THEN IF Len(possible_answers) > 0
           THEN Graded(FALSE, 0, "Incorrect. Expected: ",
                       FirstCorrectOrFirst(possible_answers).answer_text)
           ELSE Graded(FALSE, 0, "Incorrect answer.", NoArg)
  ELSE IF ~possible_answers[i].is_correct
    THEN P3_fill_blank_loop(u, possible_answers, i + 1)
  ELSE LET c == Norm(possible_answers[i].answer_text)
           p == possible_answers[i].points_awarded
           cw == WordSet(c)
           uw == WordSet(u)
       IN  IF u = c
             THEN Graded(TRUE, p, "Correct! Well done.", NoArg)
           ELSE IF Contains(c, u) \/ Contains(u, c)
             THEN Graded(TRUE, IntTimes08(p),
                         "Close! The answer was slightly different than expected.",
                         NoArg)
           ELSE IF Cardinality(cw) = 0
             THEN Raised("ZeroDivisionError")
           ELSE IF RatioAtLeast08(Cardinality(cw \cap uw), Cardinality(cw))
             THEN Graded(TRUE, IntTimes07(p),
                         "Partially correct. Consider reviewing the exact terminology.",
                         NoArg)
           ELSE P3_fill_blank_loop(u, possible_answers, i + 1)

P3_grade_fill_blank(user_answer, possible_answers) ==
  IF Strip(user_answer) = <<>>
    THEN Graded(FALSE, 0, "No answer provided.", NoArg)
  ELSE P3_fill_blank_loop(Norm(user_answer), possible_answers, 1)

P3_grade_essay(user_answer, possible_answers) ==
  IF Strip(user_answer) = <<>>
    THEN Graded(FALSE, 0, "No answer provided.", NoArg)
  ELSE IF Len(user_answer) < EssayMinLen
    THEN Graded(TRUE, 1,
                "Response is too short. Please provide more detail and explanation.",
                NoArg)
  ELSE LET total == TotalKeyTerms(CorrectOnly(possible_answers), 1)
           found == KeyTermsFound(CorrectOnly(possible_answers), user_answer, 1)
       IN  IF total > 0
             THEN Graded(TRUE,
                         IntTimesRatio(possible_answers[1].points_awarded, found, total),
                         IF RatioAtLeast08(found, total)
                           THEN "Strong response with good coverage of key concepts."
                         ELSE IF RatioAtLeast05(found, total)
                           THEN "Good response but could include more key concepts."
                         ELSE "Response needs more key concepts and details.",
                         NoArg)
           ELSE Graded(TRUE, 0, "Essay response received and will be reviewed.", NoArg)

\* the loop body of _grade_text_comparison from entry i on
RECURSIVE P3_text_comparison_loop(_, _, _)
P3_text_comparison_loop(u, possible_answers, i) ==
  IF i > Len(possible_answers)
    THEN Graded(FALSE, 0, "Incorrect. Expected: ",
                FirstCorrectOrFirst(possible_answers).answer_text)
  ELSE IF ~possible_answers[i].is_correct
    THEN P3_text_comparison_loop(u, possible_answers, i + 1)
  ELSE LET c == Norm(possible_answers[i].answer_text)
           p == possible_answers[i].points_awarded
       IN  IF u = c
             THEN Graded(TRUE, p, "Correct! Well done.", NoArg)
           ELSE IF Contains(c, u) \/ Contains(u, c)
             THEN Graded(TRUE, IntTimes08(p), "Partially correct.", NoArg)
           ELSE P3_text_comparison_loop(u, possible_answers, i + 1)

P3_grade_text_comparison(user_answer, possible_answers) ==
  IF Strip(user_answer) = <<>> \/ Len(possible_answers) = 0
    THEN Graded(FALSE, 0, "No answer provided or no correct answers defined.", NoArg)
  ELSE P3_text_comparison_loop(Norm(user_answer), possible_answers, 1)

(***************************************************************************)
(* Question types and the dispatchers.  The rows carry members of          *)
(* models.quiz.QuestionType; P3 compares them with the members of the enum *)
(* its own module declares, P1 compares their values.                      *)
(***************************************************************************)
TypeValues == {"mcq", "tf", "fill_blank", "essay"}

ModelType(v) == [cls |-> "models.quiz.QuestionType", value |-> v]

ServiceType(v) == [cls |-> "services.quiz_service.QuestionType", value |-> v]

P1_grade_single_answer(question, user_answer, correct_answers) ==
  IF question.question_type.value = "mcq"
    THEN P1_grade_mcq(user_answer, correct_answers)
  ELSE IF question.question_type.value = "tf"
    THEN P1_grade_true_false(user_answer, correct_answers)
  ELSE IF question.question_type.value = "fill_blank"
    THEN P1_grade_fill_blank(user_answer, correct_answers)
  ELSE IF question.question_type.value = "essay"
    THEN P1_grade_essay(user_answer, correct_answers)
  ELSE P1_grade_text_comparison(user_answer, correct_answers)

P3_grade_single_answer(question, user_answer, possible_answers) ==
  IF question.question_type = ServiceType("mcq")
    THEN P3_grade_mcq(user_answer, possible_answers)
  ELSE IF question.question_type = ServiceType("tf")
    THEN P3_grade_true_false(user_answer, possible_answers)
  ELSE IF question.question_type = ServiceType("fill_blank")
    THEN P3_grade_fill_blank(user_answer, possible_answers)
  ELSE IF question.question_type = ServiceType("essay")
    THEN P3_grade_essay(user_answer, possible_answers)
  ELSE P3_grade_text_comparison(user_answer, possible_answers)

(***************************************************************************)
(* Rows and queries.                                                       *)
(*   quizzes      set  of [id, content_id]                                 *)
(*   questions    set  of [id, quiz_id, question_text, question_type,      *)
(*                         points]                                         *)
(*   answers      seq  of [question_id, answer_text, is_correct,           *)
(*                         points_awarded], in the order a query returns   *)
(*   submissions  seq  of [user_id, quiz_id, score, max_score,             *)
(*                         attempt_number]                                 *)
(*   progress     seq  of [user_id, content_id, status,                    *)
(*                         completion_percentage]                          *)
(***************************************************************************)
QuizExists(quiz_id) == \E z \in quizzes : z.id = quiz_id

QuizRow(quiz_id) == CHOOSE z \in quizzes : z.id = quiz_id

QuestionsOf(quiz_id) == {q \in questions : q.quiz_id = quiz_id}

AnswersOf(question_id) ==
  SelectSeq(answers, LAMBDA a : a.question_id = question_id)

\* a submitted question_id is a UUID object or a string (JSON body)
UuidObj(v) == [kind |-> "uuid", v |-> v]
StrId(v) == [kind |-> "str", v |-> v]

\* the strings uuid.UUID() accepts
WellFormedIdStrings == {"q1", "q2", "q3", "q4", "q5", "q6", "q7", "q8", "q9"}

\* uuid.UUID(x): the UUID a well-formed string names, else the exception
ParseUUID(x) ==
  IF x.kind # "str" THEN [raised |-> "AttributeError", v |-> ""]
  ELSE IF x.v \notin WellFormedIdStrings THEN [raised |-> "ValueError", v |-> ""]
  ELSE [raised |-> "none", v |-> x.v]

\* question_id in question_map, the keys being UUID objects
InQuestionMap(x, qs) == x.kind = "uuid" /\ \E q \in qs : q.id = x.v

QuestionById(v, qs) == CHOOSE q \in qs : q.id = v

Skip == [kind |-> "skip"]
Raise(exc) == [kind |-> "raise", exc |-> exc]
Row(r) == [kind |-> "graded", row |-> r]

\* what the loop over user_answers leaves: the exception of the first
\* iteration that raised, or the rows appended
LoopResult(outs) ==
  LET bad == {i \in 1..Len(outs) : outs[i].kind = "raise"}
      kept == SelectSeq(outs, LAMBDA o : o.kind = "graded")
  IN  IF bad # {} THEN [raised |-> outs[Min(bad)].exc, rows |-> <<>>]
      ELSE [raised |-> "none", rows |-> [i \in 1..Len(kept) |-> kept[i].row]]

RECURSIVE SumPossible(_, _)
SumPossible(rows, i) ==
  IF i > Len(rows) THEN 0 ELSE rows[i].points_possible + SumPossible(rows, i + 1)

\* the question's points, not the awarded ones, added under `if is_correct`
RECURSIVE SumPossibleIfCorrect(_, _)
SumPossibleIfCorrect(rows, i) ==
  IF i > Len(rows) THEN 0
  ELSE (IF rows[i].is_correct THEN rows[i].points_possible ELSE 0)
         + SumPossibleIfCorrect(rows, i + 1)

\* earned_points += points_awarded under `if is_correct`
RECURSIVE SumEarnedIfCorrect(_, _)
SumEarnedIfCorrect(rows, i) ==
  IF i > Len(rows) THEN 0
  ELSE (IF rows[i].is_correct THEN rows[i].points_awarded ELSE 0)
         + SumEarnedIfCorrect(rows, i + 1)

RECURSIVE SumAwarded(_, _)
SumAwarded(rows, i) ==
  IF i > Len(rows) THEN 0 ELSE rows[i].points_awarded + SumAwarded(rows, i + 1)

(***************************************************************************)
(* Breakdown and feedback synthesis (the same code in P1 and P3).          *)
(***************************************************************************)
\* the question types in the order the dict first saw them
RECURSIVE TypesInOrder(_, _)
TypesInOrder(rows, i) ==
  IF i = 0 THEN <<>>
  ELSE LET before == TypesInOrder(rows, i - 1)
       IN  IF rows[i].question_type \in Range(before) THEN before
           ELSE Append(before, rows[i].question_type)

create_score_breakdown(graded_results) ==
  LET types == TypesInOrder(graded_results, Len(graded_results))
      entry(t) ==
        LET rs == SelectSeq(graded_results, LAMBDA r : r.question_type = t)
            possible == SumPossible(rs, 1)
            earned == SumAwarded(rs, 1)
        IN  [question_type |-> t, possible_points |-> possible,
             earned_points |-> earned, count |-> Len(rs),
             percentage |-> IF possible > 0 THEN Round2Pct(earned, possible) ELSE 0]
  IN  [i \in 1..Len(types) |-> entry(types[i])]

\* overall_score >= bound, overall_score = earned / possible * 100 or 0
ScoreAtLeast(earned, possible, bound) ==
  IF possible > 0 THEN earned * 100 >= bound * possible ELSE 0 >= bound

generate_overall_feedback(earned, possible) ==
  IF ScoreAtLeast(earned, possible, 90)
    THEN "Excellent work! You demonstrated strong understanding of the material."
  ELSE IF ScoreAtLeast(earned, possible, 80)
    THEN "Great job! You have a good grasp of the concepts with room for minor improvements."
  ELSE IF ScoreAtLeast(earned, possible, 70)
    THEN "Good effort! You understand the main concepts but should review some areas."
  ELSE IF ScoreAtLeast(earned, possible, 60)
    THEN "Fair performance. Focus on reviewing the areas where you had difficulties."
  ELSE "More practice needed. Review the material and try again."

\* the same levels with the bounds taken exclusive
calculate_confidence_level_exclusive(earned, possible) ==
  IF possible > 0 /\ earned * 100 > 90 * possible THEN "high"
  ELSE IF possible > 0 /\ earned * 100 > 70 * possible THEN "medium"
  ELSE "low"

calculate_confidence_level(earned, possible) ==
  IF ScoreAtLeast(earned, possible, 90) THEN "high"
  ELSE IF ScoreAtLeast(earned, possible, 70) THEN "medium"
  ELSE "low"

\* text[:n]
Truncate(text, n) == SubSeq(text, 1, IF Len(text) < n THEN Len(text) ELSE n)

Incorrect(graded_results) == SelectSeq(graded_results, LAMBDA r : ~r.is_correct)

SuggestionCut == 50
MisconceptionCut == 60

\* the generic lines added from exactly half incorrect on
generate_suggestions_from_half(graded_results) ==
  LET wrong == Incorrect(graded_results)
      lines == [i \in 1..Len(wrong) |->
                  [msg |-> "Review the concept related to: ",
                   arg |-> Truncate(wrong[i].question_text, SuggestionCut)]]
  IN  IF 2 * Len(wrong) >= Len(graded_results)
        THEN lines \o
             <<[msg |-> "Consider reviewing the entire section or chapter", arg |-> NoArg],
               [msg |-> "Try additional practice questions on these topics", arg |-> NoArg],
               [msg |-> "Seek additional resources or examples for better understanding",
                arg |-> NoArg]>>
      ELSE lines

generate_suggestions(graded_results) ==
  LET wrong == Incorrect(graded_results)
      lines == [i \in 1..Len(wrong) |->
                  [msg |-> "Review the concept related to: ",
                   arg |-> Truncate(wrong[i].question_text, SuggestionCut)]]
  IN  IF 2 * Len(wrong) > Len(graded_results)
        THEN lines \o
             <<[msg |-> "Consider reviewing the entire section or chapter", arg |-> NoArg],
               [msg |-> "Try additional practice questions on these topics", arg |-> NoArg],
               [msg |-> "Seek additional resources or examples for better understanding",
                arg |-> NoArg]>>
      ELSE lines

identify_misconceptions(graded_results) ==
  LET wrong == Incorrect(graded_results)
  IN  [i \in 1..Len(wrong) |->
         [msg |-> "Possible misunderstanding of: ",
          arg |-> Truncate(wrong[i].question_text, MisconceptionCut)]]

\* the "revisit" line added from exactly 30% incorrect on
generate_recommendations_from_30(graded_results) ==
  LET k == Len(Incorrect(graded_results))
      review == IF k > 0
                  THEN <<"Review the material for incorrectly answered questions",
                         "Practice similar questions to reinforce understanding">>
                ELSE <<>>
  IN  IF 10 * k >= 3 * Len(graded_results)
        THEN Append(review,
                    "Consider revisiting the foundational concepts before proceeding")
      ELSE review

generate_recommendations(graded_results) ==
  LET k == Len(Incorrect(graded_results))
      review == IF k > 0
                  THEN <<"Review the material for incorrectly answered questions",
                         "Practice similar questions to reinforce understanding">>
                ELSE <<>>
  IN  IF 10 * k > 3 * Len(graded_results)
        THEN Append(review,
                    "Consider revisiting the foundational concepts before proceeding")
      ELSE review

Failure(exc, msg) == [status |-> "raised", exc |-> exc, msg |-> msg]

\* a result whose confidence drops once a submission is on record
GradingResultByAttempt(user_id, quiz_id, rows) ==
  LET possible == SumPossible(rows, 1)
      earned == SumEarnedIfCorrect(rows, 1)
  IN  [status |-> "ok",
       quiz_id |-> quiz_id,
       user_id |-> user_id,
       overall_score |-> IF possible > 0 THEN Round2Pct(earned, possible) ELSE 0,
       max_score |-> possible,
       earned_points |-> earned,
       graded_answers |-> rows,
       breakdown |-> create_score_breakdown(rows),
       detailed_feedback |-> generate_overall_feedback(earned, possible),
       suggested_improvements |-> generate_suggestions(rows),
       misconceptions_identified |-> identify_misconceptions(rows),
       next_learning_recommendations |-> generate_recommendations(rows),
       confidence_level |-> IF Len(submissions) > 0 THEN "low"
                            ELSE calculate_confidence_level(earned, possible),
       grading_method |-> "rule_based"]

\* the dict both grade_quiz_submission methods return
GradingResult(user_id, quiz_id, rows) ==
  LET possible == SumPossible(rows, 1)
      earned == SumEarnedIfCorrect(rows, 1)
  IN  [status |-> "ok",
       quiz_id |-> quiz_id,
       user_id |-> user_id,
       overall_score |-> IF possible > 0 THEN Round2Pct(earned, possible) ELSE 0,
       max_score |-> possible,
       earned_points |-> earned,
       graded_answers |-> rows,
       breakdown |-> create_score_breakdown(rows),
       detailed_feedback |-> generate_overall_feedback(earned, possible),
       suggested_improvements |-> generate_suggestions(rows),
       misconceptions_identified |-> identify_misconceptions(rows),
       next_learning_recommendations |-> generate_recommendations(rows),
       confidence_level |-> calculate_confidence_level(earned, possible),
       grading_method |-> "rule_based"]

GradedRow(question_id, question, user_answer, g) ==
  [question_id |-> question_id,
   question_text |-> question.question_text,
   user_answer |-> user_answer,
   is_correct |-> g.is_correct,
   points_awarded |-> g.points_awarded,
   points_possible |-> question.points,
   feedback |-> g.feedback,
   question_type |-> question.question_type.value]

(***************************************************************************)
(* P1: QuizGradingService.grade_quiz_submission                            *)
(***************************************************************************)
P1_iteration(qs, answer) ==
  IF ~InQuestionMap(answer.question_id, qs) THEN Skip
  ELSE LET question == QuestionById(answer.question_id.v, qs)
           correct_answers == CorrectOnly(AnswersOf(question.id))
           g == P1_grade_single_answer(question, answer.answer_text, correct_answers)
       IN  IF g.raised # "none" THEN Raise(g.raised)
           ELSE Row(GradedRow(answer.question_id.v, question, answer.answer_text, g))

P1_grade_quiz_submission(user_id, quiz_id, user_answers) ==
  IF ~QuizExists(quiz_id) THEN Failure("ValueError", "Quiz not found")
  ELSE IF QuestionsOf(quiz_id) = {}
    THEN Failure("ValueError", "No questions found for this quiz")
  ELSE LET qs == QuestionsOf(quiz_id)
           loop == LoopResult([i \in 1..Len(user_answers) |->
                                 P1_iteration(qs, user_answers[i])])
       IN  IF loop.raised # "none" THEN Failure(loop.raised, "")
           ELSE GradingResult(user_id, quiz_id, loop.rows)

(***************************************************************************)
(* P3: QuizService.grade_quiz_submission and _update_progress_after_quiz   *)
(***************************************************************************)
P3_iteration(qs, answer_data) ==
  LET parsed == ParseUUID(answer_data.question_id)
  IN  IF parsed.raised # "none" THEN Raise(parsed.raised)
      ELSE IF ~(\E q \in qs : q.id = parsed.v) THEN Skip
      ELSE LET question == QuestionById(parsed.v, qs)
               possible_answers == AnswersOf(parsed.v)
               g == P3_grade_single_answer(question, answer_data.answer_text,
                                           possible_answers)
           IN  IF g.raised # "none" THEN Raise(g.raised)
               ELSE Row(GradedRow(parsed.v, question, answer_data.answer_text, g))

P3_grade_quiz_submission(user_id, quiz_id, user_answers) ==
  IF ~QuizExists(quiz_id) THEN Failure("ValueError", "Quiz not found")
  ELSE LET qs == QuestionsOf(quiz_id)
           loop == LoopResult([i \in 1..Len(user_answers) |->
                                 P3_iteration(qs, user_answers[i])])
       IN  IF loop.raised # "none" THEN Failure(loop.raised, "")
           ELSE GradingResult(user_id, quiz_id, loop.rows)

\* the score column written for earned / possible * 100, in hundredths
StoredScore(earned, possible) ==
  IF possible > 0 THEN Round2Pct(earned, possible) ELSE 0

\* the table after the look-up-then-update-or-create of a progress row
UpsertProgress(rows, user_id, content_id, status_if_found, status_if_new, pct) ==
  LET hits == {i \in 1..Len(rows) : /\ rows[i].user_id = user_id
                                    /\ rows[i].content_id = content_id}
  IN  IF hits # {}
        THEN [rows EXCEPT ![Min(hits)].status = status_if_found,
                          ![Min(hits)].completion_percentage = pct]
      ELSE Append(rows, [user_id |-> user_id, content_id |-> content_id,
                         status |-> status_if_new, completion_percentage |-> pct])

PassMark == 70

P3_update_progress_after_quiz(rows, user_id, content_id, earned, possible) ==
  LET st == IF ScoreAtLeast(earned, possible, PassMark) THEN "completed"
            ELSE "in_progress"
  IN  UpsertProgress(rows, user_id, content_id, st, st, StoredScore(earned, possible))

(***************************************************************************)
(* P1S: QuizService.submit_quiz_answers and _record_quiz_attempt.  Points  *)
(* are kept in tenths, the fill-blank branch awarding points * 0.8.        *)
(***************************************************************************)
TruthyWords == {<<"t","r","u","e">>, <<"y","e","s">>, <<"1">>, <<"t">>, <<"y">>}

SimilarThreshold10 == 8

\* _is_similar_answer with threshold 0.8
is_similar_answer(user_answer, correct_answer) ==
  LET u == Norm(user_answer)
      c == Norm(correct_answer)
      shorter == IF Len(u) < Len(c) THEN Len(u) ELSE Len(c)
      longer == IF Len(u) < Len(c) THEN Len(c) ELSE Len(u)
  IN  \/ u = c
      \/ /\ Contains(u, c) \/ Contains(c, u)
         /\ 10 * shorter >= SimilarThreshold10 * longer

P1S_grade(question, user_answer, correct_answers) ==
  LET u == Norm(user_answer)
      n == Len(correct_answers)
      t == question.question_type.value
      miss == [is_correct |-> FALSE, points10 |-> 0, feedback |-> NoArg,
               partial |-> FALSE]
  IN  IF t = "mcq"
        THEN LET hit == {i \in 1..n : u = Norm(correct_answers[i].answer_text)}
             IN  IF hit = {} THEN miss
                 ELSE [is_correct |-> TRUE,
                       points10 |-> 10 * correct_answers[Min(hit)].points_awarded,
                       feedback |-> correct_answers[Min(hit)].answer_text,
                       partial |-> FALSE]
      ELSE IF t = "tf"
        THEN LET hit == {i \in 1..n :
                           (u \in TruthyWords) =
                           (Norm(correct_answers[i].answer_text) \in TruthyWords)}
             IN  IF hit = {} THEN miss
                 ELSE [is_correct |-> TRUE,
                       points10 |-> 10 * correct_answers[Min(hit)].points_awarded,
                       feedback |-> correct_answers[Min(hit)].answer_text,
                       partial |-> FALSE]
      ELSE IF t = "fill_blank"
        THEN LET hit == {i \in 1..n :
                           is_similar_answer(user_answer, correct_answers[i].answer_text)}
             IN  IF hit = {} THEN miss
                 ELSE IF u = Norm(correct_answers[Min(hit)].answer_text)
                   THEN [is_correct |-> TRUE,
                         points10 |-> 10 * correct_answers[Min(hit)].points_awarded,
                         feedback |-> correct_answers[Min(hit)].answer_text,
                         partial |-> FALSE]
                 ELSE [is_correct |-> TRUE,
                       points10 |-> 8 * correct_answers[Min(hit)].points_awarded,
                       feedback |-> correct_answers[Min(hit)].answer_text,
                       partial |-> TRUE]
      ELSE IF t = "essay"
        THEN [is_correct |-> TRUE, points10 |-> 10 * question.points,
              feedback |-> <<"Essay submitted. Review pending.">>, partial |-> FALSE]
      ELSE miss

P1S_iteration(qs, answer_data) ==
  LET x == answer_data.question_id
      parsed == IF x.kind = "str" THEN ParseUUID(x) ELSE [raised |-> "none", v |-> x.v]
  IN  IF parsed.raised # "none" THEN Raise(parsed.raised)
      ELSE IF ~(\E q \in qs : q.id = parsed.v) THEN Skip
      ELSE LET question == QuestionById(parsed.v, qs)
               correct_answers == CorrectOnly(AnswersOf(parsed.v))
               g == P1S_grade(question, answer_data.answer_text, correct_answers)
           IN  Row([question_id |-> parsed.v,
                    question_text |-> question.question_text,
                    user_answer |-> answer_data.answer_text,
                    is_correct |-> g.is_correct,
                    points_awarded10 |-> g.points10,
                    feedback |-> g.feedback,
                    partial |-> g.partial,
                    question_points |-> question.points])

RECURSIVE SumQuestionPoints(_, _)
SumQuestionPoints(rows, i) ==
  IF i > Len(rows) THEN 0
  ELSE rows[i].question_points + SumQuestionPoints(rows, i + 1)

RECURSIVE SumAwarded10(_, _)
SumAwarded10(rows, i) ==
  IF i > Len(rows) THEN 0
  ELSE rows[i].points_awarded10 + SumAwarded10(rows, i + 1)

P1S_submit_quiz_answers(user_id, quiz_id, user_answers) ==
  IF ~QuizExists(quiz_id) THEN Failure("ValueError", "Quiz not found")
  ELSE LET qs == QuestionsOf(quiz_id)
           loop == LoopResult([i \in 1..Len(user_answers) |->
                                 P1S_iteration(qs, user_answers[i])])
           total == SumQuestionPoints(loop.rows, 1)
           earned10 == SumAwarded10(loop.rows, 1)
       IN  IF loop.raised # "none" THEN Failure(loop.raised, "")
           ELSE [status |-> "ok",
                 quiz_id |-> quiz_id,
                 user_id |-> user_id,
                 total_points |-> total,
                 earned_points10 |-> earned10,
                 \* earned / total * 100, unrounded: kept as the exact ratio
                 score_percentage |-> IF total > 0
                                        THEN [num |-> 10 * earned10, den |-> total]
                                      ELSE [num |-> 0, den |-> 1],
                 question_results |-> loop.rows,
                 passed |-> ScoreAtLeast(earned10, 10 * total, PassMark)]

P1S_record_quiz_attempt(rows, user_id, content_id, earned10, total) ==
  LET found == IF ScoreAtLeast(earned10, 10 * total, 100) THEN "completed"
               ELSE IF total > 0 /\ earned10 > 0 THEN "in_progress"
               ELSE "not_started"
      new == IF ScoreAtLeast(earned10, 10 * total, 100) THEN "completed"
             ELSE "in_progress"
  IN  UpsertProgress(rows, user_id, content_id, found, new,
                     StoredScore(earned10, 10 * total))

(***************************************************************************)
(* Bounds and input pools.                                                 *)
(***************************************************************************)
MaxAnswers == 2
MaxSubmissions == 2
MaxKeyEntries == 2
MaxRepeatAnswers == 1

Pad(n) == [i \in 1..n |-> "x"]

tEmpty == <<>>
tBlank == <<" ">>
tParis == <<"P","a","r","i","s">>
tParisLoose == <<"p","a","r","i","s"," ">>
tParisFrance == <<"P","a","r","i","s"," ","F","r","a","n","c","e">>
tPar == <<"p","a","r">>
tRome == <<"R","o","m","e">>
tTrue == <<"T","r","u","e">>
tFalse == <<"f","a","l","s","e">>
tT == <<"t">>
tOne == <<"1">>
tNo == <<" ","N","O">>
tMaybe == <<"m","a","y","b","e">>
tRedFox == <<"r","e","d"," ","f","o","x">>
tRedFoxCaps == <<"R","e","d"," ","F","o","x"," ">>
tFoxRed == <<"f","o","x"," "," ","r","e","d">>
tRed == <<"r","e","d">>
tCat == <<"c","a","t">>
tFiveWords == <<"a"," ","b"," ","c"," ","d"," ","e">>
tFourOfFive == <<"a"," ","b"," ","c"," ","d"," ","x">>
tThreeOfFive == <<"a"," ","b"," ","c"," ","x"," ","y">>
tCellWall == <<"C","e","l","l"," ","w","a","l","l">>
tGene == <<"g","e","n","e">>
tShortEssay == <<"a"," ","c","e","l","l">>
tLongNone == Pad(EssayMinLen)
tLongCell == <<"t","h","e"," ","c","e","l","l"," ">> \o Pad(EssayMinLen)
tLongBoth == <<"C","E","L","L"," ","W","A","L","L"," ">> \o Pad(EssayMinLen - 10)
tBelowMin == Pad(EssayMinLen - 1)
tFiveTerms == <<"a","l","f","a"," ","b","e","t","a"," ","g","a","m","a"," ",
                "d","e","l","t"," ","e","p","s","i">>
tLongFour == <<"a","l","f","a"," ","b","e","t","a"," ","g","a","m","a"," ",
               "d","e","l","t"," ">> \o Pad(EssayMinLen - 20)
tQText == <<"Q","u","e","s","t","i","o","n"," ">> \o Pad(SuggestionCut)

Users == {"u1"}

Entry(qid, text, ok, pts) ==
  [question_id |-> qid, answer_text |-> text, is_correct |-> ok,
   points_awarded |-> pts]

Question(qid, type, pts, text) ==
  [id |-> qid, quiz_id |-> "z1", question_text |-> text,
   question_type |-> ModelType(type), points |-> pts]

\* the questions a quiz may be built from, with their answer keys
QuestionBank ==
  {Question("q1", "mcq", 10, tQText), Question("q2", "tf", 2, tTrue),
   Question("q3", "fill_blank", 5, tCat), Question("q4", "essay", 10, tQText),
   Question("q5", "mcq", 1, tRed), Question("q6", "fill_blank", 3, tGene),
   Question("q7", "mcq", 2, tRome), Question("q8", "mcq", 2003, tParis)}

KeyBank ==
  <<Entry("q1", tRome, FALSE, 0), Entry("q1", tParis, TRUE, 10),
    Entry("q2", tTrue, TRUE, 2), Entry("q2", tFalse, FALSE, 5),
    Entry("q3", tRedFox, TRUE, 5),
    Entry("q4", tCellWall, TRUE, 10), Entry("q4", tGene, TRUE, 4),
    Entry("q5", tRed, TRUE, 2),
    Entry("q6", tBlank, TRUE, 3), Entry("q6", tRedFox, TRUE, 3),
    Entry("q7", tRome, FALSE, 0),
    Entry("q8", tParis, TRUE, 1402)>>

\* the question sets of quiz z1 that Init draws from
QuizShapes ==
  {{}, {"q1"}, {"q2"}, {"q3"}, {"q4"}, {"q5"}, {"q6"}, {"q7"}, {"q8"},
   {"q1", "q2"}, {"q3", "q4"}, {"q1", "q5"}}

\* the answer texts the services are tried with on a question
TextsFor(qid) ==
  CASE qid = "q1" -> {tParisLoose, tRome, tParisFrance}
    [] qid = "q2" -> {tT, tNo, tOne}
    [] qid = "q3" -> {tRed, tCat}
    [] qid = "q4" -> {tShortEssay, tLongCell}
    [] qid = "q5" -> {tRed, tEmpty}
    [] qid = "q6" -> {tCat, tBlank}
    [] qid = "q7" -> {tRome}
    [] qid = "q8" -> {tParisLoose}
    [] OTHER -> {tCat}

\* the answer texts the grading engine is tried with on a question
EngineTextsFor(qid) ==
  TextsFor(qid) \cup
  (CASE qid = "q1" -> {tEmpty}
     [] qid = "q2" -> {tBlank, tMaybe}
     [] qid = "q3" -> {tRedFoxCaps, tFoxRed, tEmpty}
     [] qid = "q4" -> {tBlank, tLongBoth, tLongNone}
     [] qid = "q6" -> {tFoxRed}
     [] OTHER -> {})

Submitted(x, text) == [question_id |-> x, answer_text |-> text]

KnownIds == {q.id : q \in questions}

\* answers naming a question of the database, the id in the given form
KnownAnswers(form, rich) ==
  UNION {{Submitted([kind |-> form, v |-> v], t) :
            t \in (IF rich THEN EngineTextsFor(v) ELSE TextsFor(v))} : v \in KnownIds}

\* answers whose id names no question of the quiz for the UUID-keyed map
StrayAnswers ==
  {Submitted(UuidObj("q9"), tCat), Submitted(StrId("q9"), tCat),
   Submitted(StrId("bad"), tCat)}

SeqsUpTo(S, n) == UNION {[1..k -> S] : k \in 0..n}

QuizIds == {"z1", "z0"}

(***************************************************************************)
(* The state machine.  A call runs its whole handler in one step and       *)
(* leaves what it returned or raised in `result`; Respond hands that to    *)
(* the caller.                                                             *)
(***************************************************************************)
\* request-handling threads that may run service calls at the same time
Workers == {"w1", "w2"}

IdleTask == [pc |-> "idle"]

Idle == [op |-> "idle"]
NoResult == [status |-> "none"]

Init ==
  /\ quizzes = {[id |-> "z1", content_id |-> "c1"]}
  /\ \E shape \in QuizShapes :
        /\ questions = {q \in QuestionBank : q.id \in shape}
        /\ answers = SelectSeq(KeyBank, LAMBDA a : a.question_id \in shape)
  /\ submissions = <<>>
  /\ progress = <<>>
  /\ call = Idle
  /\ result = NoResult
  /\ prev = Idle
  /\ gcall = Idle
  /\ gres = NoResult
  /\ tasks = [w \in Workers |-> IdleTask]

Call(op, user_id, quiz_id, user_answers) ==
  [op |-> op, user_id |-> user_id, quiz_id |-> quiz_id,
   user_answers |-> user_answers]

P1Grade(user_id, quiz_id, user_answers) ==
  /\ call = Idle
  /\ gcall = Idle
  /\ call' = Call("P1.grade_quiz_submission", user_id, quiz_id, user_answers)
  /\ result' = P1_grade_quiz_submission(user_id, quiz_id, user_answers)
  /\ UNCHANGED <<dbvars, prev, gcall, gres, tasks>>

P3Grade(user_id, quiz_id, user_answers) ==
  \E r \in {P3_grade_quiz_submission(user_id, quiz_id, user_answers)} :
      /\ call = Idle
      /\ gcall = Idle
      /\ call' = Call("P3.grade_quiz_submission", user_id, quiz_id, user_answers)
      /\ result' = r
      /\ IF r.status = "ok"
           THEN /\ Len(submissions) < MaxSubmissions
                /\ submissions' =
                     Append(submissions,
                            [user_id |-> user_id, quiz_id |-> quiz_id,
                             score |-> StoredScore(r.earned_points, r.max_score),
                             max_score |-> 100, attempt_number |-> 1])
                /\ progress' =
                     P3_update_progress_after_quiz(progress, user_id,
                        QuizRow(quiz_id).content_id, r.earned_points, r.max_score)
         ELSE UNCHANGED <<submissions, progress>>
      /\ UNCHANGED <<quizzes, questions, answers, prev, gcall, gres, tasks>>

P1SSubmit(user_id, quiz_id, user_answers) ==
  \E r \in {P1S_submit_quiz_answers(user_id, quiz_id, user_answers)} :
      /\ call = Idle
      /\ gcall = Idle
      /\ call' = Call("P1S.submit_quiz_answers", user_id, quiz_id, user_answers)
      /\ result' = r
      /\ IF r.status = "ok"
           THEN progress' =
                  P1S_record_quiz_attempt(progress, user_id,
                     QuizRow(quiz_id).content_id, r.earned_points10, r.total_points)
         ELSE UNCHANGED progress
      /\ UNCHANGED <<quizzes, questions, answers, submissions, prev, gcall, gres, tasks>>

Respond ==
  /\ call # Idle
  /\ call' = Idle
  /\ result' = NoResult
  /\ UNCHANGED <<dbvars, prev, gcall, gres, tasks>>

Remember ==
  /\ call # Idle
  /\ prev = Idle
  /\ prev' = [call |-> call, result |-> result]
  /\ call' = Idle
  /\ result' = NoResult
  /\ UNCHANGED <<dbvars, gcall, gres, tasks>>

\* the requests tried: a missing quiz is tried with at most one answer
Requests(pool, n) ==
  {<<z, ua>> \in QuizIds \X SeqsUpTo(pool, n) : z = "z0" => Len(ua) <= 1}

P1Pool ==
  KnownAnswers("uuid", FALSE)
    \cup {Submitted(UuidObj("q9"), tCat), Submitted(StrId("bad"), tCat)}
P3Pool == KnownAnswers("str", FALSE) \cup StrayAnswers
P1SPool == KnownAnswers("str", FALSE) \cup {Submitted(StrId("bad"), tCat)}
EnginePool == KnownAnswers("uuid", TRUE) \cup StrayAnswers

\* the services over a quiz of at most one question
InitService == Init /\ Cardinality(questions) <= 1

Next ==
  \/ /\ call = Idle
     /\ \E u \in Users : \E rq \in Requests(P1Pool, MaxAnswers) :
           P1Grade(u, rq[1], rq[2])
  \/ /\ call = Idle
     /\ \E u \in Users : \E rq \in Requests(P3Pool, MaxAnswers) :
           P3Grade(u, rq[1], rq[2])
  \/ /\ call = Idle
     /\ \E u \in Users : \E rq \in Requests(P1SPool, MaxAnswers) :
           P1SSubmit(u, rq[1], rq[2])
  \/ Respond

Spec == InitService /\ [][Next]_vars

\* the grading engine alone, over every quiz shape
NextEngine ==
  \/ /\ call = Idle
     /\ \E u \in Users : \E rq \in Requests(EnginePool, MaxAnswers) :
           P1Grade(u, rq[1], rq[2])
  \/ Respond

SpecEngine == Init /\ [][NextEngine]_vars

(***************************************************************************)
(* The type graders applied on their own.  P1 hands a grader the entries   *)
(* its query filtered on is_correct, P3 hands it every entry.              *)
(***************************************************************************)
GraderKinds == {"mcq", "tf", "fill_blank", "essay", "text"}

GraderTexts(kind) ==
  CASE kind = "mcq" -> {tEmpty, tBlank, tParis, tParisLoose, tParisFrance, tRome}
    [] kind = "tf" -> {tEmpty, tBlank, tTrue, tT, tNo, tMaybe}
    [] kind = "fill_blank" -> {tEmpty, tBlank, tRedFoxCaps, tFoxRed, tRed, tCat,
                               tFourOfFive, tThreeOfFive}
    [] kind = "essay" -> {tEmpty, tBlank, tShortEssay, tBelowMin, tLongNone,
                          tLongCell, tLongBoth, tLongFour}
    [] OTHER -> {tEmpty, tBlank, tParisLoose, tParisFrance, tPar, tRome}

GraderKeyTexts(kind) ==
  CASE kind = "mcq" -> {tParis, tParisLoose, tPar, tBlank}
    [] kind = "tf" -> {tTrue, tFalse, tNo, tMaybe, tT}
    [] kind = "fill_blank" -> {tRedFox, tRed, tBlank, tEmpty, tFiveWords}
    [] kind = "essay" -> {tCellWall, tGene, tRed, tBlank, tFiveTerms}
    [] OTHER -> {tParis, tPar, tBlank}

\* is_correct and points_awarded of the entries tried
EntryFlavours == {<<TRUE, 5>>, <<TRUE, 10>>, <<FALSE, 7>>}

\* fill-blank keys also hold an entry worth 90 points, where 90 * 0.7 is
\* 62.99999999999999 in floating point
GraderFlavours(kind) ==
  IF kind = "fill_blank" THEN EntryFlavours \cup {<<TRUE, 90>>} ELSE EntryFlavours

GraderKeys(kind) ==
  SeqsUpTo({Entry("q1", t, f[1], f[2]) :
              <<t, f>> \in GraderKeyTexts(kind) \X GraderFlavours(kind)},
           MaxKeyEntries)

P1_apply(kind, user_answer, correct_answers) ==
  CASE kind = "mcq" -> P1_grade_mcq(user_answer, correct_answers)
    [] kind = "tf" -> P1_grade_true_false(user_answer, correct_answers)
    [] kind = "fill_blank" -> P1_grade_fill_blank(user_answer, correct_answers)
    [] kind = "essay" -> P1_grade_essay(user_answer, correct_answers)
    [] OTHER -> P1_grade_text_comparison(user_answer, correct_answers)

P3_apply(kind, user_answer, possible_answers) ==
  CASE kind = "mcq" -> P3_grade_mcq(user_answer, possible_answers)
    [] kind = "tf" -> P3_grade_true_false(user_answer, possible_answers)
    [] kind = "fill_blank" -> P3_grade_fill_blank(user_answer, possible_answers)
    [] kind = "essay" -> P3_grade_essay(user_answer, possible_answers)
    [] OTHER -> P3_grade_text_comparison(user_answer, possible_answers)

GraderCall(impl, kind, user_answer, entries) ==
  [op |-> "grader", impl |-> impl, kind |-> kind,
   user_answer |-> user_answer, entries |-> entries]

P1Grader(kind, user_answer, entries) ==
  /\ gcall = Idle
  /\ call = Idle
  /\ gcall' = GraderCall("P1", kind, user_answer, entries)
  /\ gres' = P1_apply(kind, user_answer, CorrectOnly(entries))
  /\ UNCHANGED <<dbvars, call, result, prev, tasks>>

P3Grader(kind, user_answer, entries) ==
  /\ gcall = Idle
  /\ call = Idle
  /\ gcall' = GraderCall("P3", kind, user_answer, entries)
  /\ gres' = P3_apply(kind, user_answer, entries)
  /\ UNCHANGED <<dbvars, call, result, prev, tasks>>

GraderReturn ==
  /\ gcall # Idle
  /\ gcall' = Idle
  /\ gres' = NoResult
  /\ UNCHANGED <<dbvars, call, result, prev, tasks>>

\* the graders, next to the engine over a quiz of the question q1 at most
InitGraders == Init /\ KnownIds \subseteq {"q1"}

NextGraders ==
  \/ /\ gcall = Idle
     /\ \E kind \in GraderKinds : \E t \in GraderTexts(kind) :
          \E key \in GraderKeys(kind) : P1Grader(kind, t, key)
  \/ /\ gcall = Idle
     /\ \E kind \in GraderKinds : \E t \in GraderTexts(kind) :
          \E key \in GraderKeys(kind) : P3Grader(kind, t, key)
  \/ GraderReturn
  \/ /\ call = Idle
     /\ gcall = Idle
     /\ \E u \in Users : \E rq \in Requests(EnginePool, MaxAnswers) :
           P1Grade(u, rq[1], rq[2])
  \/ Respond

SpecGraders == InitGraders /\ [][NextGraders]_vars

(***************************************************************************)
(* Repeated calls: one earlier call and what it returned are remembered.   *)
(***************************************************************************)
NextRepeat ==
  \/ /\ call = Idle
     /\ \E u \in Users : \E rq \in Requests(P1Pool, MaxRepeatAnswers) :
           P1Grade(u, rq[1], rq[2])
  \/ /\ call = Idle
     /\ \E u \in Users : \E rq \in Requests(P3Pool, MaxRepeatAnswers) :
           P3Grade(u, rq[1], rq[2])
  \/ Respond
  \/ Remember

SpecRepeat == InitService /\ [][NextRepeat]_vars

(***************************************************************************)
(* Longer submissions: up to MaxLongAnswers answers to the one question of *)
(* the quiz, so that a small share of a result's rows can be incorrect.    *)
(***************************************************************************)
MaxLongAnswers == 4

LongPool(form) ==
  {Submitted([kind |-> form, v |-> "q1"], t) : t \in {tParisLoose, tRome}}

NextLong ==
  \/ /\ call = Idle
     /\ \E u \in Users : \E ua \in SeqsUpTo(LongPool("uuid"), MaxLongAnswers) :
           P1Grade(u, "z1", ua)
  \/ /\ call = Idle
     /\ \E u \in Users : \E ua \in SeqsUpTo(LongPool("str"), MaxLongAnswers) :
           P3Grade(u, "z1", ua)
  \/ Respond

SpecLong == InitGraders /\ [][NextLong]_vars

(***************************************************************************)
(* Properties.                                                             *)
(***************************************************************************)
GradeOps == {"P1.grade_quiz_submission", "P3.grade_quiz_submission"}

\* every question is worth at least one point and no correct entry is worth
\* more than its question
WellFormedQuiz ==
  \A q \in questions :
     /\ q.points >= 1
     /\ \A i \in 1..Len(answers) :
           (answers[i].question_id = q.id /\ answers[i].is_correct)
             => (0 <= answers[i].points_awarded /\ answers[i].points_awarded <= q.points)

\* C1: over a well-formed quiz, every QuestionResult of P1's
\* grade_quiz_submission carries the points of its question as
\* points_possible and 0 <= points_awarded <= points_possible.
C1_PointsWithinQuestion ==
  (call.op = "P1.grade_quiz_submission" /\ result.status = "ok" /\ WellFormedQuiz)
    => \A i \in 1..Len(result.graded_answers) :
          LET r == result.graded_answers[i]
          IN  /\ r.points_possible = QuestionById(r.question_id, questions).points
              /\ 0 <= r.points_awarded
              /\ r.points_awarded <= r.points_possible

\* a fill-blank answer with partial credit graded next to a credited essay
C1_Witness ==
  /\ call.op = "P1.grade_quiz_submission"
  /\ result.status = "ok"
  /\ WellFormedQuiz
  /\ \E i, j \in 1..Len(result.graded_answers) :
        /\ result.graded_answers[i].question_type = "fill_blank"
        /\ result.graded_answers[i].points_awarded > 0
        /\ result.graded_answers[i].points_awarded
             < result.graded_answers[i].points_possible
        /\ result.graded_answers[j].question_type = "essay"
        /\ result.graded_answers[j].points_awarded >= 1

\* C2: the overall_score of P1's grade_quiz_submission lies in [0, 100] for
\* every quiz and every answer list, and is 0 when no result was produced or
\* the possible points of the results add up to 0.
C2_ScoreInRange ==
  (call.op = "P1.grade_quiz_submission" /\ result.status = "ok")
    => /\ 0 <= result.overall_score
       /\ result.overall_score <= 10000
       /\ (result.max_score = 0 => result.overall_score = 0)
       /\ (result.graded_answers = <<>> => result.overall_score = 0)

ExactEntries(user_answer, entries) ==
  {i \in 1..Len(entries) : /\ entries[i].is_correct
                           /\ Norm(entries[i].answer_text) = Norm(user_answer)}

NoAnswerMessages ==
  {"No answer provided.", "No answer provided or no correct answers defined."}

\* C5: an empty or whitespace-only answer to a question of any of the four
\* types gets 0 points and a "no answer" message.
C5_EmptyAnswerNoAnswer ==
  (/\ gcall # Idle
   /\ gcall.kind \in {"mcq", "tf", "fill_blank", "essay"}
   /\ Strip(gcall.user_answer) = <<>>)
    => /\ gres.raised = "none"
       /\ gres.points_awarded = 0
       /\ gres.feedback.msg \in NoAnswerMessages

\* the id names a question of the quiz
Identifies(x, quiz_id) == \E q \in QuestionsOf(quiz_id) : q.id = x.v

GradeBy(op, user_id, quiz_id, user_answers) ==
  IF op = "P1.grade_quiz_submission"
    THEN P1_grade_quiz_submission(user_id, quiz_id, user_answers)
  ELSE P3_grade_quiz_submission(user_id, quiz_id, user_answers)

\* C6: answers whose question_id names no question of the quiz, malformed
\* ids included, are dropped without error: when the other answers alone
\* are graded successfully, so is the whole list, with the same
\* QuestionResults, overall score and max score.
C6_UnknownIdsDropped ==
  (call.op \in GradeOps)
    => LET S == SelectSeq(call.user_answers,
                          LAMBDA a : Identifies(a.question_id, call.quiz_id))
           alone == GradeBy(call.op, call.user_id, call.quiz_id, S)
       IN  alone.status = "ok"
             => /\ result.status = "ok"
                /\ result.graded_answers = alone.graded_answers
                /\ result.overall_score = alone.overall_score
                /\ result.max_score = alone.max_score

\* C7: a call on a quiz that is missing or has no question fails with the
\* validation error, whatever the answers.
C7_NoQuestionsFails ==
  (call # Idle /\ (~QuizExists(call.quiz_id) \/ QuestionsOf(call.quiz_id) = {}))
    => (result.status = "raised" /\ result.exc = "ValueError")

\* C8: on every non-empty answer text and every answer key, each grader of
\* P1 and of P3 returns a (correct, points, feedback) result and raises
\* nothing: no division by an empty word set, no first entry of an empty key.
C8_GradersNeverRaise ==
  (gcall # Idle /\ Len(gcall.user_answer) > 0)
    => /\ gres.raised = "none"
       /\ gres.is_correct \in BOOLEAN
       /\ gres.points_awarded \in Nat
       /\ gres.feedback.msg # ""

\* a fill-blank answer graded against a correct entry of blank text
C8_Witness ==
  /\ gcall # Idle
  /\ gcall.kind = "fill_blank"
  /\ gcall.impl = "P1"
  /\ Strip(gcall.user_answer) # <<>>
  /\ \E i \in 1..Len(gcall.entries) :
        /\ gcall.entries[i].is_correct
        /\ Strip(gcall.entries[i].answer_text) = <<>>
  /\ gres.raised = "none"
  /\ gres.is_correct

\* C9: no call changes a persistent record (quiz, questions, answer keys,
\* submissions, progress), whether it returns a result or fails.
C9_NoSideEffects == [][dbvars' = dbvars]_vars

\* C10: the number of QuestionResults is at most the number of submitted
\* answers and at most the number of questions of the quiz.
C10_ResultCount ==
  (call.op \in GradeOps /\ result.status = "ok")
    => /\ Len(result.graded_answers) <= Len(call.user_answers)
       /\ Len(result.graded_answers) <= Cardinality(QuestionsOf(call.quiz_id))


\* C11: every essay answer that is not blank earns at least 1 point when
\* the key has a correct entry and no entry of the key is worth 0 points,
\* whatever the length of the answer and however few key terms it holds.
C11_EssayAtLeastOne ==
  (/\ gcall # Idle
   /\ gcall.kind = "essay"
   /\ Strip(gcall.user_answer) # <<>>
   /\ CorrectOnly(gcall.entries) # <<>>
   /\ \A i \in 1..Len(gcall.entries) : gcall.entries[i].points_awarded > 0)
    => (gres.raised = "none" /\ gres.points_awarded >= 1)


\* the answer neither equals, nor contains, nor is contained in the entry
NoCloserTier(u, c) == u # c /\ ~Contains(c, u) /\ ~Contains(u, c)

\* correct entries whose words are found in the answer at a ratio >= 0.8
OverlapEntries(u, entries) ==
  {i \in 1..Len(entries) :
     10 * Cardinality(WordSet(Norm(entries[i].answer_text)) \cap WordSet(u))
       >= 8 * Cardinality(WordSet(Norm(entries[i].answer_text)))}

\* C12: a fill-blank answer with no exact and no containment match against
\* any correct entry is graded correct with floor(0.7 * entry points) and the
\* "review terminology" feedback when its token overlap with a correct entry
\* is at least 0.8, exactly 0.8 included (4 of 5 tokens), the first such
\* entry giving the points; with every ratio below 0.8 it is incorrect.
C12_OverlapTier ==
  (/\ gcall # Idle
   /\ gcall.kind = "fill_blank"
   /\ Strip(gcall.user_answer) # <<>>
   /\ \A i \in 1..Len(CorrectOnly(gcall.entries)) :
         NoCloserTier(Norm(gcall.user_answer),
                      Norm(CorrectOnly(gcall.entries)[i].answer_text)))
    => LET E == CorrectOnly(gcall.entries)
           hit == OverlapEntries(Norm(gcall.user_answer), E)
       IN  IF hit # {}
             THEN /\ gres.raised = "none"
                  /\ gres.is_correct
                  /\ gres.points_awarded = (7 * E[Min(hit)].points_awarded) \div 10
                  /\ gres.feedback.msg =
                       "Partially correct. Consider reviewing the exact terminology."
           ELSE gres.raised = "none" /\ ~gres.is_correct /\ gres.points_awarded = 0


(***************************************************************************)
(* Concurrent calls.  Each worker runs one grade_quiz_submission call on   *)
(* its own database session; a step is what a call does up to its next    *)
(* database round trip, and a session sees what the others committed.      *)
(*   P1: one step (it only queries quiz, questions and answer keys).       *)
(*   P3: grade, add the QuizSubmission and commit; query the Progress row; *)
(*       update it or add a new one and commit, then return.               *)
(* reads and writes are the rows a call has queried and written so far.    *)
(***************************************************************************)
ConcUsers == {"u1", "u2"}

QuizData(quiz_id) == {<<"quiz", quiz_id>>}
ProgressKey(user_id, content_id) == <<"progress", user_id, content_id>>
SubmissionKey(n) == <<"quiz_submissions", n>>

\* the first progress row of the user on the content, 0 when there is none
FirstProgress(user_id, content_id) ==
  LET hits == {i \in 1..Len(progress) : /\ progress[i].user_id = user_id
                                        /\ progress[i].content_id = content_id}
  IN  IF hits = {} THEN 0 ELSE Min(hits)

Task(pc, op, user_id, quiz_id, user_answers, r, found, reads, writes) ==
  [pc |-> pc, op |-> op, user_id |-> user_id, quiz_id |-> quiz_id,
   user_answers |-> user_answers, result |-> r, found |-> found,
   reads |-> reads, writes |-> writes]

ConcP1Grade(w, user_id, quiz_id, user_answers) ==
  /\ tasks[w].pc = "idle"
  /\ tasks' = [tasks EXCEPT ![w] =
       Task("done", "P1.grade_quiz_submission", user_id, quiz_id, user_answers,
            P1_grade_quiz_submission(user_id, quiz_id, user_answers),
            0, QuizData(quiz_id), {})]
  /\ UNCHANGED <<dbvars, call, result, prev, gcall, gres>>

\* lines 63-118: grading, db.add(submission), db.commit()
ConcP3Begin(w, user_id, quiz_id, user_answers) ==
  \E r \in {P3_grade_quiz_submission(user_id, quiz_id, user_answers)} :
      /\ tasks[w].pc = "idle"
      /\ IF r.status = "ok"
           THEN /\ Len(submissions) < MaxSubmissions
                /\ submissions' =
                     Append(submissions,
                            [user_id |-> user_id, quiz_id |-> quiz_id,
                             score |-> StoredScore(r.earned_points, r.max_score),
                             max_score |-> 100, attempt_number |-> 1])
                /\ tasks' = [tasks EXCEPT ![w] =
                     Task("graded", "P3.grade_quiz_submission", user_id, quiz_id,
                          user_answers, r, 0, QuizData(quiz_id),
                          {SubmissionKey(Len(submissions) + 1)})]
         ELSE /\ UNCHANGED submissions
              /\ tasks' = [tasks EXCEPT ![w] =
                   Task("done", "P3.grade_quiz_submission", user_id, quiz_id,
                        user_answers, r, 0, QuizData(quiz_id), {})]
      /\ UNCHANGED <<quizzes, questions, answers, progress,
                     call, result, prev, gcall, gres>>

\* lines 449-452: the Progress query of _update_progress_after_quiz
ConcP3Look(w) ==
  /\ tasks[w].pc = "graded"
  /\ LET key == ProgressKey(tasks[w].user_id, QuizRow(tasks[w].quiz_id).content_id)
     IN  tasks' = [tasks EXCEPT
           ![w].pc = "looked",
           ![w].found = FirstProgress(tasks[w].user_id,
                                      QuizRow(tasks[w].quiz_id).content_id),
           ![w].reads = @ \cup {key}]
  /\ UNCHANGED <<dbvars, call, result, prev, gcall, gres>>

\* lines 454-471 and the return: update the row found, or add a new one
ConcP3Write(w) ==
  /\ tasks[w].pc = "looked"
  /\ LET t == tasks[w]
         content_id == QuizRow(t.quiz_id).content_id
         st == IF ScoreAtLeast(t.result.earned_points, t.result.max_score, PassMark)
                 THEN "completed" ELSE "in_progress"
         pct == StoredScore(t.result.earned_points, t.result.max_score)
     IN  /\ progress' =
              IF t.found # 0
                THEN [progress EXCEPT ![t.found].status = st,
                                      ![t.found].completion_percentage = pct]
              ELSE Append(progress, [user_id |-> t.user_id, content_id |-> content_id,
                                     status |-> st, completion_percentage |-> pct])
         /\ tasks' = [tasks EXCEPT
              ![w].pc = "done",
              ![w].writes = @ \cup {ProgressKey(t.user_id, content_id)}]
  /\ UNCHANGED <<quizzes, questions, answers, submissions,
                 call, result, prev, gcall, gres>>

\* the caller has taken the result
ConcReturn(w) ==
  /\ tasks[w].pc = "done"
  /\ tasks' = [tasks EXCEPT ![w] = IdleTask]
  /\ UNCHANGED <<dbvars, call, result, prev, gcall, gres>>

\* requests of at most one answer on the existing quiz
ConcRequests(pool) == {rq \in Requests(pool, 1) : rq[1] = "z1"}

NextConcurrent ==
  \/ \E w \in Workers : /\ tasks[w].pc = "idle"
                        /\ \E u \in ConcUsers : \E rq \in ConcRequests(P1Pool) :
                              ConcP1Grade(w, u, rq[1], rq[2])
  \/ \E w \in Workers : /\ tasks[w].pc = "idle"
                        /\ \E u \in ConcUsers : \E rq \in ConcRequests(P3Pool) :
                              ConcP3Begin(w, u, rq[1], rq[2])
  \/ \E w \in Workers : ConcP3Look(w)
  \/ \E w \in Workers : ConcP3Write(w)
  \/ \E w \in Workers : ConcReturn(w)

SpecConcurrent == InitService /\ [][NextConcurrent]_vars


\* C13: concurrent grade_quiz_submission calls are isolated: a call that has
\* finished holds the result it gives when run alone, and no call has
\* written a row that another call in progress has queried or written.
C13_CallsIsolated ==
  /\ \A w \in Workers :
        tasks[w].pc = "done"
          => tasks[w].result = GradeBy(tasks[w].op, tasks[w].user_id,
                                       tasks[w].quiz_id, tasks[w].user_answers)
  /\ \A w, v \in Workers :
        (w # v /\ tasks[w].pc # "idle" /\ tasks[v].pc # "idle")
          => tasks[w].writes \cap (tasks[v].reads \cup tasks[v].writes) = {}


\* the grader of the question's own type, applied as the service applies it
OwnTypeGrader(op, question, user_answer) ==
  IF op = "P1.grade_quiz_submission"
    THEN P1_apply(question.question_type.value, user_answer,
                  CorrectOnly(AnswersOf(question.id)))
  ELSE P3_apply(question.question_type.value, user_answer, AnswersOf(question.id))

\* C14: every QuestionResult of grade_quiz_submission, in P1 and in P3, is
\* what the grader of the question's own type returns for the answer (MCQ,
\* true/false, fill-blank, essay); the text-compare fallback grades none
\* of the four types.
C14_OwnTypeGraderUsed ==
  (call.op \in GradeOps /\ result.status = "ok")
    => \A i \in 1..Len(result.graded_answers) :
          LET r == result.graded_answers[i]
              g == OwnTypeGrader(call.op, QuestionById(r.question_id, questions),
                                 r.user_answer)
          IN  /\ r.is_correct = g.is_correct
              /\ r.points_awarded = g.points_awarded
              /\ r.feedback = g.feedback


\* C15: a fill-blank answer whose normalized text equals that of a correct
\* entry gets the full points of such an entry and the "correct" feedback,
\* also when a correct entry listed earlier is contained in, contains or
\* token-overlaps the answer.
C15_FillBlankExactFirst ==
  (/\ gcall # Idle
   /\ gcall.kind = "fill_blank"
   /\ Strip(gcall.user_answer) # <<>>
   /\ ExactEntries(gcall.user_answer, gcall.entries) # {})
    => /\ gres.raised = "none"
       /\ gres.is_correct
       /\ gres.feedback.msg = "Correct! Well done."
       /\ \E i \in ExactEntries(gcall.user_answer, gcall.entries) :
             gres.points_awarded = gcall.entries[i].points_awarded


\* correct entries whose normalized text is a substring of the answer
SubstringEntries(user_answer, entries) ==
  {i \in 1..Len(entries) : /\ entries[i].is_correct
                           /\ Contains(Norm(entries[i].answer_text), Norm(user_answer))}

\* what C16 states of an MCQ answer graded as (is_correct, points, feedback)
\* against the entries of its question
McqSecondRule(user_answer, entries, is_correct, points_awarded, feedback) ==
  ExactEntries(user_answer, entries) = {}
    => IF SubstringEntries(user_answer, entries) # {}
         THEN /\ is_correct
              /\ points_awarded =
                   entries[Min(SubstringEntries(user_answer, entries))].points_awarded
              /\ feedback.msg =
                   "Partially correct. Consider reviewing the material for a complete answer."
       ELSE /\ ~is_correct
            /\ points_awarded = 0
            /\ CorrectOnly(entries) # <<>>
                 => feedback.arg = CorrectOnly(entries)[1].answer_text

\* C16: an MCQ answer without an exact match is graded correct with the full
\* points of the first correct entry that is a substring of it and the
\* "partially correct" feedback, and otherwise incorrect with 0 points and
\* feedback naming the first correct entry; this holds of the MCQ graders
\* and of the MCQ results of grade_quiz_submission, in P1 and in P3.
C16_McqSubstringRule ==
  /\ (gcall # Idle /\ gcall.kind = "mcq")
       => /\ gres.raised = "none"
          /\ McqSecondRule(gcall.user_answer, gcall.entries,
                           gres.is_correct, gres.points_awarded, gres.feedback)
  /\ (call.op \in GradeOps /\ result.status = "ok")
       => \A i \in 1..Len(result.graded_answers) :
             LET r == result.graded_answers[i]
             IN  r.question_type = "mcq"
                   => McqSecondRule(r.user_answer, AnswersOf(r.question_id),
                                    r.is_correct, r.points_awarded, r.feedback)


\* the answer and a correct entry are both words for true or both words
\* for false, the word lists being those the graders apply to the answer
TfAgreeing(user_answer, entries) ==
  {i \in 1..Len(entries) :
     /\ entries[i].is_correct
     /\ \/ /\ Norm(user_answer) \in TrueWordsUser
           /\ Norm(entries[i].answer_text) \in TrueWordsUser
        \/ /\ Norm(user_answer) \in FalseWordsUser
           /\ Norm(entries[i].answer_text) \in FalseWordsUser}

TfRule(user_answer, entries, is_correct, points_awarded) ==
  /\ is_correct <=> TfAgreeing(user_answer, entries) # {}
  /\ is_correct => \E i \in TfAgreeing(user_answer, entries) :
                      points_awarded = entries[i].points_awarded
  /\ ~is_correct => points_awarded = 0

\* C17: a true/false answer is graded correct exactly when it and some
\* correct entry are both in {true,yes,correct,t,y} or both in
\* {false,no,incorrect,f,n}; an answer in neither set is never correct; the
\* points are the matching entry's full points or 0.  This holds of the
\* true/false graders of P1 and P3 and of the tf branch of P1S.
C17_TrueFalseRule ==
  /\ (gcall # Idle /\ gcall.kind = "tf")
       => /\ gres.raised = "none"
          /\ TfRule(gcall.user_answer, gcall.entries,
                    gres.is_correct, gres.points_awarded)
  /\ (call.op = "P1S.submit_quiz_answers" /\ result.status = "ok")
       => \A i \in 1..Len(result.question_results) :
             LET r == result.question_results[i]
             IN  QuestionById(r.question_id, questions).question_type.value = "tf"
                   => TfRule(r.user_answer, AnswersOf(r.question_id),
                             r.is_correct, r.points_awarded10 \div 10)


\* correct entries that contain the answer or are contained in it
ContainEntries(user_answer, entries) ==
  {i \in 1..Len(entries) :
     /\ entries[i].is_correct
     /\ \/ Contains(Norm(entries[i].answer_text), Norm(user_answer))
        \/ Contains(Norm(user_answer), Norm(entries[i].answer_text))}

ContainmentRule(user_answer, entries, is_correct, points10) ==
  ( /\ Norm(user_answer) # <<>>
    /\ ExactEntries(user_answer, entries) = {}
    /\ ContainEntries(user_answer, entries) # {} )
    => /\ is_correct
       /\ \E i \in ContainEntries(user_answer, entries) :
             points10 = 10 * ((8 * entries[i].points_awarded) \div 10)

\* C18: a non-empty fill-blank answer that equals no correct entry but
\* contains a correct entry, or is contained in one, is graded correct with
\* floor(0.8 x that entry's points), a whole number, whatever the lengths of
\* the two texts.  This holds of the fill-blank graders and of the
\* fill_blank branch of P1S.
C18_ContainmentTier ==
  /\ (gcall # Idle /\ gcall.kind = "fill_blank" /\ gres.raised = "none")
       => ContainmentRule(gcall.user_answer, gcall.entries,
                          gres.is_correct, 10 * gres.points_awarded)
  /\ (call.op = "P1S.submit_quiz_answers" /\ result.status = "ok")
       => \A i \in 1..Len(result.question_results) :
             LET r == result.question_results[i]
             IN  QuestionById(r.question_id, questions).question_type.value
                     = "fill_blank"
                   => ContainmentRule(r.user_answer, AnswersOf(r.question_id),
                                      r.is_correct, r.points_awarded10)


\* floor(p * min(found / total, 1.0)) for total > 0
FloorOfShare(p, found, total) ==
  IF found >= total THEN p ELSE (p * found) \div total

\* C19: an essay answer of at least 50 characters is graded correct; its
\* points are floor(first correct entry's points x min(matchRatio, 1.0)),
\* matchRatio being the key terms of the correct entries found in the answer
\* over their total, and 0 when the correct entries have no key terms;
\* entries not flagged correct influence neither the ratio nor the points.
C19_EssayKeyTermPoints ==
  (/\ gcall # Idle
   /\ gcall.kind = "essay"
   /\ Strip(gcall.user_answer) # <<>>
   /\ Len(gcall.user_answer) >= EssayMinLen)
    => LET flagged == CorrectOnly(gcall.entries)
           total == TotalKeyTerms(flagged, 1)
           found == KeyTermsFound(flagged, gcall.user_answer, 1)
       IN  /\ gres.raised = "none"
           /\ gres.is_correct
           /\ gres.points_awarded =
                IF total = 0 THEN 0
                ELSE FloorOfShare(flagged[1].points_awarded, found, total)


TooShortMessage ==
  "Response is too short. Please provide more detail and explanation."

\* the verdict on an essay answer by its emptiness and length alone
EssayShortRule(user_answer, is_correct, points10, msg) ==
  /\ Strip(user_answer) = <<>> => ~is_correct /\ points10 = 0
  /\ Strip(user_answer) # <<>> => is_correct
  /\ (Strip(user_answer) # <<>> /\ Len(user_answer) < EssayMinLen)
       => points10 = 10 /\ msg = TooShortMessage

\* C20: an essay answer is graded incorrect only when it is empty or
\* whitespace, and then gets 0 points; every non-empty essay answer is graded
\* correct; a non-empty answer shorter than 50 characters gets exactly 1
\* point and the feedback asking for more detail, whatever the answer key.
\* This holds of the essay graders of P1 and P3 and of the essay branch of
\* P1S.
C20_EssayShortAnswers ==
  /\ (gcall # Idle /\ gcall.kind = "essay")
       => /\ gres.raised = "none"
          /\ EssayShortRule(gcall.user_answer, gres.is_correct,
                            10 * gres.points_awarded, gres.feedback.msg)
  /\ (call.op = "P1S.submit_quiz_answers" /\ result.status = "ok")
       => \A i \in 1..Len(result.question_results) :
             LET r == result.question_results[i]
             IN  QuestionById(r.question_id, questions).question_type.value
                     = "essay"
                   => EssayShortRule(r.user_answer, r.is_correct,
                                     r.points_awarded10,
                                     IF r.feedback = <<TooShortMessage>>
                                       THEN TooShortMessage ELSE "other")


StrongMessage == "Strong response with good coverage of key concepts."
GoodMessage == "Good response but could include more key concepts."
NeedsMoreMessage == "Response needs more key concepts and details."

\* an essay grader call with an answer of at least 50 characters and a key
\* with at least one key term
LongEssayCall ==
  /\ gcall # Idle
  /\ gcall.kind = "essay"
  /\ Strip(gcall.user_answer) # <<>>
  /\ Len(gcall.user_answer) >= EssayMinLen
  /\ TotalKeyTerms(CorrectOnly(gcall.entries), 1) > 0

\* C21: for an essay answer of at least 50 characters and a key with at
\* least one key term, the feedback is "strong" when matchRatio >= 0.8,
\* "good" when 0.5 <= matchRatio < 0.8 and "needs more" below 0.5; in P1,
\* at matchRatio exactly 0.8 the points are floor(0.8 x entry points).
C21_EssayFeedbackBands ==
  LongEssayCall =>
    LET flagged == CorrectOnly(gcall.entries)
        total == TotalKeyTerms(flagged, 1)
        found == KeyTermsFound(flagged, gcall.user_answer, 1)
    IN  /\ gres.raised = "none"
        /\ gres.feedback.msg =
             IF 10 * found >= 8 * total THEN StrongMessage
             ELSE IF 10 * found >= 5 * total THEN GoodMessage
             ELSE NeedsMoreMessage
        /\ (gcall.impl = "P1" /\ 10 * found = 8 * total)
             => gres.points_awarded = (8 * flagged[1].points_awarded) \div 10

\* 8 of 10 key terms found by P1: strong coverage
C21_Witness ==
  /\ LongEssayCall
  /\ gcall.impl = "P1"
  /\ TotalKeyTerms(CorrectOnly(gcall.entries), 1) = 10
  /\ KeyTermsFound(CorrectOnly(gcall.entries), gcall.user_answer, 1) = 8
  /\ gres.feedback.msg = StrongMessage
  /\ gres.points_awarded = 8


\* a call of the fallback grader with a non-empty answer and at least one
\* correct entry
TextCompareCall ==
  /\ gcall # Idle
  /\ gcall.kind \notin {"mcq", "tf", "fill_blank", "essay"}
  /\ Strip(gcall.user_answer) # <<>>
  /\ CorrectOnly(gcall.entries) # <<>>

\* C22: the fallback text-compare grader, given a non-empty answer and at
\* least one correct entry, awards a correct entry's full points when the
\* normalized answer equals it, floor(0.8 x entry points) when the answer
\* only contains or is contained in a correct entry, and otherwise grades
\* incorrect with 0 points and feedback naming the first correct entry;
\* entries not flagged correct never earn points.
C22_TextCompareTiers ==
  TextCompareCall =>
    LET exact == ExactEntries(gcall.user_answer, gcall.entries)
        near == ContainEntries(gcall.user_answer, gcall.entries)
    IN  /\ gres.raised = "none"
        /\ exact # {} =>
             /\ gres.is_correct
             /\ \E i \in exact :
                   gres.points_awarded = gcall.entries[i].points_awarded
        /\ (exact = {} /\ near # {}) =>
             /\ gres.is_correct
             /\ \E i \in near :
                   gres.points_awarded =
                     (8 * gcall.entries[i].points_awarded) \div 10
        /\ (exact = {} /\ near = {}) =>
             /\ ~gres.is_correct
             /\ gres.points_awarded = 0
             /\ gres.feedback =
                  [msg |-> "Incorrect. Expected: ",
                   arg |-> CorrectOnly(gcall.entries)[1].answer_text]


\* the sum of one numeric field over the rows from i on
RECURSIVE FieldSum(_, _, _)
FieldSum(rows, f, i) ==
  IF i > Len(rows) THEN 0 ELSE rows[i][f] + FieldSum(rows, f, i + 1)

\* C23: in every GradingResult of P1 and P3, max_score is the sum of
\* points_possible and earned_points the sum of points_awarded over exactly
\* the produced QuestionResults, every result marked incorrect carrying 0
\* points; skipped answers and questions nobody answered add nothing.
C23_TotalsAreRowSums ==
  (call.op \in GradeOps /\ result.status = "ok")
    => /\ result.max_score = FieldSum(result.graded_answers, "points_possible", 1)
       /\ result.earned_points = FieldSum(result.graded_answers, "points_awarded", 1)
       /\ \A i \in 1..Len(result.graded_answers) :
             ~result.graded_answers[i].is_correct
               => result.graded_answers[i].points_awarded = 0

\* a call with one answer skipped and one graded correct with part of the
\* question's points
C23_Witness ==
  /\ call.op \in GradeOps
  /\ result.status = "ok"
  /\ Len(result.graded_answers) < Len(call.user_answers)
  /\ \E i \in 1..Len(result.graded_answers) :
        /\ result.graded_answers[i].is_correct
        /\ result.graded_answers[i].points_awarded
             < result.graded_answers[i].points_possible


\* the narrative of a score given in hundredths of a percent, the lower
\* bound of each band inclusive
NarrativeOfScore(score) ==
  IF score >= 9000
    THEN "Excellent work! You demonstrated strong understanding of the material."
  ELSE IF score >= 8000
    THEN "Great job! You have a good grasp of the concepts with room for minor improvements."
  ELSE IF score >= 7000
    THEN "Good effort! You understand the main concepts but should review some areas."
  ELSE IF score >= 6000
    THEN "Fair performance. Focus on reviewing the areas where you had difficulties."
  ELSE "More practice needed. Review the material and try again."

\* C24: in every GradingResult the detailed_feedback is the band of the
\* overall_score reported in the same result (>= 90 excellent, >= 80 great,
\* >= 70 good effort, >= 60 fair, else more practice), also when
\* earned / possible x 100 lies just below a bound and the reported score,
\* rounded to 2 decimals, lies on it.
C24_NarrativeOfReportedScore ==
  (call.op \in GradeOps /\ result.status = "ok")
    => result.detailed_feedback = NarrativeOfScore(result.overall_score)


ExcellentText ==
  "Excellent work! You demonstrated strong understanding of the material."
GreatText ==
  "Great job! You have a good grasp of the concepts with room for minor improvements."
GoodEffortText ==
  "Good effort! You understand the main concepts but should review some areas."

\* C25: confidence and narrative use the same inclusive bounds on the same
\* score: confidence is high exactly when the narrative is "excellent",
\* medium exactly when it is "great" or "good effort", low exactly when it
\* is "fair" or "more practice needed"; a score of exactly 90 gives
\* high/excellent and a score of exactly 70 gives medium/good effort.
C25_ConfidenceMatchesNarrative ==
  (call.op \in GradeOps /\ result.status = "ok")
    => /\ result.confidence_level \in {"high", "medium", "low"}
       /\ result.confidence_level = "high"
            <=> result.detailed_feedback = ExcellentText
       /\ result.confidence_level = "medium"
            <=> result.detailed_feedback \in {GreatText, GoodEffortText}
       /\ (result.max_score > 0
           /\ 100 * result.earned_points = 90 * result.max_score)
            => /\ result.confidence_level = "high"
               /\ result.detailed_feedback = ExcellentText
       /\ (result.max_score > 0
           /\ 100 * result.earned_points = 70 * result.max_score)
            => /\ result.confidence_level = "medium"
               /\ result.detailed_feedback = GoodEffortText

\* a result whose score is exactly 70: medium confidence, "good effort"
C25_Witness ==
  /\ call.op \in GradeOps
  /\ result.status = "ok"
  /\ result.max_score > 0
  /\ 100 * result.earned_points = 70 * result.max_score
  /\ result.confidence_level = "medium"
  /\ result.detailed_feedback = GoodEffortText


\* the structural part of the breakdown: one entry per question type
\* among the rows, and sums that agree with the result's totals
BreakdownAddsUp ==
  LET rows == result.graded_answers
      b == result.breakdown
  IN  /\ {b[i].question_type : i \in 1..Len(b)}
           = {rows[i].question_type : i \in 1..Len(rows)}
      /\ \A i, j \in 1..Len(b) :
            b[i].question_type = b[j].question_type => i = j
      /\ FieldSum(b, "count", 1) = Len(rows)
      /\ FieldSum(b, "possible_points", 1) = result.max_score
      /\ FieldSum(b, "earned_points", 1) = result.earned_points

\* C26: the breakdown of every GradingResult has exactly one entry per
\* question type among the QuestionResults; the counts sum to the number of
\* results, the possible_points to max_score, the earned_points to
\* earned_points; an entry's percentage is 0 when its possible_points is 0
\* and otherwise lies in [0, 100].
C26_Breakdown ==
  (call.op = "P1.grade_quiz_submission" /\ result.status = "ok")
    => /\ BreakdownAddsUp
       /\ \A i \in 1..Len(result.breakdown) :
             LET e == result.breakdown[i]
             IN  /\ e.possible_points = 0 => e.percentage = 0
                 /\ 0 <= e.percentage /\ e.percentage <= 10000


\* the results marked incorrect, in result order
WrongRows == SelectSeq(result.graded_answers, LAMBDA r : ~r.is_correct)

GenericSuggestions ==
  <<"Consider reviewing the entire section or chapter",
    "Try additional practice questions on these topics",
    "Seek additional resources or examples for better understanding">>

\* C27: with k incorrect results among n, the suggestions are exactly k
\* per-question lines, one per incorrect result in result order with the
\* question text cut to 50 characters, followed by the three generic lines
\* if and only if k > n / 2; exactly half incorrect, and an empty result
\* list, add no generic line.
C27_Suggestions ==
  (call.op \in GradeOps /\ result.status = "ok")
    => LET n == Len(result.graded_answers)
           k == Len(WrongRows)
           s == result.suggested_improvements
       IN  /\ Len(s) = IF 2 * k > n THEN k + 3 ELSE k
           /\ \A j \in 1..k :
                 /\ s[j].msg = "Review the concept related to: "
                 /\ Len(s[j].arg) <= SuggestionCut
                 /\ Len(s[j].arg) = Min({Len(WrongRows[j].question_text), SuggestionCut})
                 /\ \A c \in 1..Len(s[j].arg) :
                       s[j].arg[c] = WrongRows[j].question_text[c]
           /\ 2 * k > n =>
                 \A g \in 1..3 : s[k + g] = [msg |-> GenericSuggestions[g],
                                             arg |-> NoArg]

\* exactly half of the results incorrect, the question text longer than 50
\* characters: one per-question line and no generic line
C27_Witness ==
  /\ call.op \in GradeOps
  /\ result.status = "ok"
  /\ Len(result.graded_answers) = 2
  /\ Len(WrongRows) = 1
  /\ Len(WrongRows[1].question_text) > SuggestionCut
  /\ Len(result.suggested_improvements) = 1


ReviewLines ==
  <<"Review the material for incorrectly answered questions",
    "Practice similar questions to reinforce understanding">>

RevisitLine == "Consider revisiting the foundational concepts before proceeding"

\* C28: with k incorrect results among n, the recommendations are empty
\* when k = 0, hold the two generic review lines when k >= 1, and end with
\* the "revisit foundational concepts" line in addition if and only if
\* k > 0.3 x n; the "revisit" line never appears without the review lines.
C28_Recommendations ==
  (call.op \in GradeOps /\ result.status = "ok")
    => LET n == Len(result.graded_answers)
           k == Len(WrongRows)
           rec == result.next_learning_recommendations
       IN  /\ k = 0 => rec = <<>>
           /\ (k >= 1 /\ 10 * k <= 3 * n) => rec = ReviewLines
           /\ (k >= 1 /\ 10 * k > 3 * n) => rec = Append(ReviewLines, RevisitLine)
           /\ RevisitLine \in Range(rec) => SubSeq(rec, 1, 2) = ReviewLines

\* one incorrect result among four: the two review lines and no "revisit"
C28_Witness ==
  /\ call.op \in GradeOps
  /\ result.status = "ok"
  /\ Len(result.graded_answers) = 4
  /\ Len(WrongRows) = 1
  /\ result.next_learning_recommendations = ReviewLines


\* no call is in progress
AllFinished == \A w \in Workers : tasks[w].pc \in {"idle", "done"}

\* C29: under every interleaving of concurrent submissions by one user for
\* one quiz, once all of them have finished at most one Progress record
\* exists for that user and the quiz's content: the look-up-then-create
\* step never creates a second record.
C29_OneProgressRecord ==
  AllFinished =>
    \A i, j \in 1..Len(progress) :
       (/\ progress[i].user_id = progress[j].user_id
        /\ progress[i].content_id = progress[j].content_id) => i = j


\* the Progress rows of the caller for the content of the quiz
CallerProgress ==
  SelectSeq(progress,
            LAMBDA p : /\ p.user_id = call.user_id
                       /\ p.content_id = QuizRow(call.quiz_id).content_id)

\* C30: after a completed P3 grade_quiz_submission call, whatever calls came
\* before it, the caller's Progress record for the quiz's content reflects
\* this call only: COMPLETED if the call's overall score is >= 70 and
\* IN_PROGRESS otherwise, completion_percentage equal to that score.
C30_ProgressFollowsLastCall ==
  (call.op = "P3.grade_quiz_submission" /\ result.status = "ok")
    => /\ Len(CallerProgress) = 1
       /\ CallerProgress[1].status =
            IF result.overall_score >= 100 * PassMark THEN "completed"
            ELSE "in_progress"
       /\ CallerProgress[1].completion_percentage = result.overall_score

====
